---- MODULE Spec2Model ----
(***************************************************************************)
(* The message wall of xzt-wall: an express/PostgreSQL server and the      *)
(* successive versions of the React component MessageWall that pages,      *)
(* merges and publishes messages.                                          *)
(*                                                                         *)
(* The repository holds five versions of MessageWall that talk to the      *)
(* server.  Each is one value of the variable `variant`:                   *)
(*   "pullup"    src/src/components/MessageWall.tsx, lines 1-335           *)
(*               (pull-up gesture and button, hasMore, renderCount)        *)
(*   "refresh"   src/src/components/MessageWall.tsx, lines 337-592         *)
(*               (pull-to-refresh, every load replaces the list)           *)
(*   "sentinel"  src/unnamed/part_000 (IntersectionObserver sentinel)      *)
(*   "loadmore"  src/unnamed/part_001, lines 1-218 (loadMore)              *)
(*   "bidir"     src/unnamed/part_002 (top and bottom gestures)            *)
(*                                                                         *)
(* An async handler is cut at its awaits: the call runs to the fetch, the  *)
(* server serves the request at some later step, and the continuation      *)
(* runs when the response is delivered.  Values a handler closed over      *)
(* (the rendered `messages`) travel with the request.                      *)
(***************************************************************************)
EXTENDS Integers, Sequences, FiniteSets, TLC

\* ---------------------------------------------------------------- constants
PAGE_SIZE == 10
MAX_PULL == 120
THRESHOLD == 60
\* DAMPING = 0.5 is the fraction 1 / DAMPING_DEN
DAMPING_DEN == 2
\* the fixed height of the loading bar, setBottomPull(48) / setTopPull(48)
LOADING_PULL == 48
\* the server's fixed LIMIT
SERVER_LIMIT == 100
\* a ref or cursor holding null; a field that is missing from a row
NULL == -1
\* new Date(s).getTime() of an unparsable s: the time value is NaN.  A
\* comparator result of NaN counts as +0, so a stable insertion leaves such
\* an item behind the items it is compared with, as the oldest would be.
InvalidDate == -2

\* ------------------------------------------------------------------- bounds
\* publishes the user may submit in one session
MaxPosts == 1
\* messages other users publish during the session
MaxOtherPosts == 1
\* page fetches (older, newer, refresh) issued after the initial load, in
\* the variants with touch gestures ("pullup", "refresh", "bidir")
MaxFetches == 2
\* page fetches in the variants whose only trigger is the observer
\* ("sentinel", "loadmore")
MaxObserverFetches == 3
\* requests that may fail (transport error or error body)
MaxFailures == 1
\* rows of the long table, and the page fetches of a session that reads it
LongTable == 60
MaxAutofillFetches == 6

Variants == {"pullup", "refresh", "sentinel", "loadmore", "bidir"}

\* "repo": the GET handler of src/server.js.  "paging": a backend that
\* honours the limit / before / after / offset parameters the clients send.
Backends == {"repo", "paging"}

\* --------------------------------------------------------------- sequences
Take(s, n) == SubSeq(s, 1, IF n < Len(s) THEN n ELSE Len(s))

Drop(s, n) == SubSeq(s, n + 1, Len(s))

Reverse(s) == [i \in 1..Len(s) |-> s[Len(s) + 1 - i]]

\* Array.prototype.filter with the predicate given as the set of kept items
SelectSeqBy(s, keep) == SelectSeq(s, LAMBDA x : x \in keep)

Ids(s) == {s[i].id : i \in 1..Len(s)}

Min(a, b) == IF a < b THEN a ELSE b

\* ------------------------------------------------------------------ client
\* mapDB: a row {id, created_at} becomes a Message {id, timestamp}.
\* id.toString() is injective and new Date(created_at) keeps the instant.
mapDB(rows) ==
  [i \in 1..Len(rows) |-> [id |-> rows[i].id, timestamp |-> rows[i].created_at]]

\* msg.id.toString() throws a TypeError on a row without id.
mapDBThrows(rows) == \E k \in 1..Len(rows) : rows[k].id = NULL

\* Date.prototype.toISOString throws a RangeError on an Invalid Date.
toISOStringThrows(m) == m.timestamp = InvalidDate

\* .sort((a, b) => b.timestamp.getTime() - a.timestamp.getTime()):
\* Array.prototype.sort is stable, equal timestamps keep their order.  SortSeq
\* moves an item in front of its neighbour only where the comparison holds,
\* so a strict comparison leaves equal timestamps in place.
sortDesc(s) == SortSeq(s, LAMBDA a, b : a.timestamp > b.timestamp)

\* forEach((m) => map.set(m.id, m)); Array.from(map.values()):
\* a key keeps the place of its first insertion and the value of its last.
mapValues(s) ==
  LET n == Len(s)
      firstOfItsId(i) == \A j \in 1..(i - 1) : s[j].id # s[i].id
      lastWithId(id) == CHOOSE j \in 1..n :
                          s[j].id = id /\ \A l \in (j + 1)..n : s[l].id # id
      keys == SelectSeq([i \in 1..n |-> i], firstOfItsId)
  IN [k \in 1..Len(keys) |-> s[lastWithId(s[keys[k]].id)]]

\* ------------------------------------------------------------------ server
\* ORDER BY created_at DESC over the table.  SQL leaves the order of rows with
\* equal created_at open: tieAsc picks ascending or descending id among them.
orderByCreatedAtDesc(rows, tieAsc) ==
  SortSeq(IF tieAsc THEN rows ELSE Reverse(rows),
          LAMBDA a, b : a.created_at > b.created_at)

\* app.get('/messages') of src/server.js: the query string is not read.
getMessages(rows, tieAsc) == Take(orderByCreatedAtDesc(rows, tieAsc), SERVER_LIMIT)

\* The backend the clients are written against: before / after are exclusive
\* bounds, offset skips rows, limit caps the page.
getMessagesPaged(rows, req, tieAsc) ==
  LET inRange == {r \in {rows[i] : i \in 1..Len(rows)} :
                    /\ (req.before # NULL => r.created_at < req.before)
                    /\ (req.after # NULL => r.created_at > req.after)}
      ordered == SelectSeqBy(orderByCreatedAtDesc(rows, tieAsc), inRange)
  IN Take(Drop(ordered, req.offset), req.limit)

\* ------------------------------------------------------------------ drafts
\* The text of the compose field as <<lead, ink, trail>>: `lead` whitespace
\* characters, then `ink` characters that begin and end with a visible one,
\* then `trail` whitespace characters.  A text of whitespace only is
\* <<n, 0, 0>>.
EmptyContent == <<0, 0, 0>>

\* content.length
Length(c) == c[1] + c[2] + c[3]

\* content.trim()
trimContent(c) == <<0, c[2], 0>>

\* ------------------------------------------------------------------- state
VARIABLES
  variant,          \* which MessageWall runs in this session
  backend,          \* which backend answers GET /messages
  db,               \* public.messages, rows {id, created_at} in insertion order
  emitted,          \* the rows broadcast with io.emit('new_message', ..), in order
  messages,         \* useState<Message[]>([])
  renderCount,      \* useState(PAGE_SIZE)
  hasMore,          \* useState(true)
  newestCursor,     \* newestCursorRef
  oldestCursor,     \* oldestCursorRef
  busy,             \* busyRef (refreshingRef in "refresh")
  topLoading,       \* topLoading (isRefreshing in "refresh")
  bottomLoading,    \* bottomLoading / loadingMore / isLoadingMore
  isInitialLoading, \* useState(true) of "loadmore"
  pulling,          \* pullingRef
  pullMode,         \* pullModeRef: "none" (null), "top" or "bottom"
  startY,           \* startYRef
  topPull,          \* topPull (pullDistance in "refresh")
  topReady,         \* topReady (canRefresh and canRefreshRef in "refresh")
  bottomPull,       \* bottomPull
  bottomReady,      \* bottomReady
  isPostDialogOpen, \* useState(false)
  inflight,         \* requests sent and not yet settled, in the order issued
  mounted,          \* the mount effects have run
  observing,        \* an IntersectionObserver is attached to the sentinel
  wasExhausted,     \* history: hasMore has been false at some point
  startedAway,      \* history: the gesture in progress began away from the edge
  content,          \* useState("") of PostMessageDialog: the draft text
  latestRows,       \* history ("refresh"): the response to the latest request issued
  posts,            \* publishes submitted
  otherPosts,       \* messages other users published
  fetches,          \* page fetches issued after the initial load
  failures          \* requests that failed

vars == <<variant, backend, db, emitted, messages, renderCount, hasMore, newestCursor,
          oldestCursor, busy, topLoading, bottomLoading, isInitialLoading,
          pulling, pullMode, startY, topPull, topReady, bottomPull, bottomReady,
          isPostDialogOpen, inflight, mounted, observing, wasExhausted,
          startedAway, content, latestRows, posts, otherPosts, fetches, failures>>

envVars == <<variant, backend>>
cursorVars == <<newestCursor, oldestCursor>>
gestureVars == <<pulling, pullMode, startY, topPull, topReady, bottomPull, bottomReady>>
boundVars == <<posts, otherPosts, fetches, failures>>

\* The table at the start of a session: n rows with serial ids; created_at
\* grows with the id, except that rows tieAt and tieAt + 1 (when tieAt > 0)
\* were inserted within the same millisecond.
MkRows(n, tieAt) ==
  [i \in 1..n |-> [id |-> i,
                   created_at |-> IF tieAt > 0 /\ i > tieAt THEN i - 1 ELSE i]]

InitDBs == {MkRows(0, 0), MkRows(3, 2), MkRows(10, 0), MkRows(15, 5)}

\* clientY of touchstart and of the touchmove events
TouchStartYs == {400}
TouchYs == {0, 800}

\* The component before its first render: the useState / useRef initial values.
InitClient ==
  /\ emitted = <<>>
  /\ messages = <<>>
  /\ renderCount = PAGE_SIZE
  /\ hasMore = TRUE
  /\ newestCursor = NULL
  /\ oldestCursor = NULL
  /\ busy = FALSE
  /\ topLoading = FALSE
  /\ bottomLoading = FALSE
  /\ isInitialLoading = TRUE
  /\ pulling = FALSE
  /\ pullMode = "none"
  /\ startY = 0
  /\ topPull = 0
  /\ topReady = FALSE
  /\ bottomPull = 0
  /\ bottomReady = FALSE
  /\ isPostDialogOpen = FALSE
  /\ inflight = <<>>
  /\ mounted = FALSE
  /\ observing = FALSE
  /\ wasExhausted = FALSE
  /\ startedAway = FALSE
  /\ content = EmptyContent
  /\ latestRows = <<>>
  /\ posts = 0
  /\ otherPosts = 0
  /\ fetches = 0
  /\ failures = 0

Init ==
  /\ variant \in Variants
  /\ backend \in Backends
  /\ db \in InitDBs
  \* "refresh" sends no parameter: the two backends answer alike, and no
  \* page size is compared with the table's length
  /\ variant = "refresh" => backend = "repo" /\ Len(db) < PAGE_SIZE
  /\ InitClient

\* ---------------------------------------------------------------- requests
\* A fetch() in flight.  closureIds is the id set of the `messages` the
\* calling handler closed over; gesture says onTouchEnd awaits the handler.
Request(kind, before, after, offset, limit, closureIds, gesture) ==
  [kind |-> kind, phase |-> "sent", before |-> before, after |-> after,
   offset |-> offset, limit |-> limit, rows |-> <<>>, ok |-> TRUE,
   status |-> 0, closureIds |-> closureIds, gesture |-> gesture, issued |-> 0]

RemoveAt(s, i) == SubSeq(s, 1, i - 1) \o SubSeq(s, i + 1, Len(s))

\* fetch(`/messages?limit=${PAGE_SIZE}`)
FreshestRequest(kind, gesture) ==
  Request(kind, NULL, NULL, 0, PAGE_SIZE, {}, gesture)

\* fetch('/messages'): no parameter at all.  `issued` numbers the requests
\* of "refresh" in the order loadMessages() sends them, the mount's being 0.
PlainRequest(gesture) ==
  [Request("refresh", NULL, NULL, 0, SERVER_LIMIT, {}, gesture)
     EXCEPT !.issued = IF mounted THEN fetches + 1 ELSE 0]

\* fetch(`/messages?limit=..&before=..`), or the offset fallback
OlderRequest(gesture) ==
  IF oldestCursor # NULL
  THEN Request("older", oldestCursor, NULL, 0, PAGE_SIZE, Ids(messages), gesture)
  ELSE Request("older", NULL, NULL, Len(messages), PAGE_SIZE, Ids(messages), gesture)

\* fetch(`/messages?limit=..&after=..`), or the freshest page
NewerRequest(gesture) ==
  IF newestCursor # NULL
  THEN Request("newer", NULL, newestCursor, 0, PAGE_SIZE, {}, gesture)
  ELSE FreshestRequest("newer", gesture)

CanFetch ==
  fetches < (CASE variant \in {"sentinel", "loadmore"} /\ Len(db) >= LongTable
                    -> MaxAutofillFetches
               [] variant \in {"sentinel", "loadmore"} -> MaxObserverFetches
               [] OTHER -> MaxFetches)

\* useEffect(() => { loadInitial(); }, [loadInitial]) and, in "refresh",
\* the effect that calls loadMessages().  In "sentinel" the sentinel is in
\* the first render and the observer effect attaches to it; in "loadmore"
\* the first render is the skeleton, bottomRef.current is null.
Mount ==
  /\ ~mounted
  /\ mounted' = TRUE
  /\ inflight' = Append(inflight,
       IF variant = "refresh" THEN PlainRequest(FALSE)
       ELSE FreshestRequest("initial", FALSE))
  /\ observing' = (variant = "sentinel")
  /\ UNCHANGED <<envVars, content, latestRows, startedAway, db, emitted, messages, renderCount, hasMore, cursorVars, busy,
                 topLoading, bottomLoading, isInitialLoading, gestureVars,
                 isPostDialogOpen, wasExhausted, boundVars>>

\* created_at DEFAULT now(): later than every stored row.
Nows == IF db = <<>> THEN {1} ELSE {db[Len(db)].created_at + 1}

\* The server handles request i: a GET reads the table, a POST inserts one
\* row (RETURNING *) and answers with it.
Serve(i) ==
  /\ inflight[i].phase = "sent"
  /\ IF inflight[i].kind = "post"
     THEN \E now \in Nows :
            LET row == [id |-> Len(db) + 1, created_at |-> now] IN
            /\ db' = Append(db, row)
            /\ emitted' = Append(emitted, row)
            /\ inflight' = [inflight EXCEPT ![i].phase = "served", ![i].rows = <<row>>,
                                            ![i].status = 201]
     ELSE \E tieAsc \in BOOLEAN :
            /\ UNCHANGED <<db, emitted>>
            /\ inflight' = [inflight EXCEPT ![i].phase = "served", ![i].status = 200,
                 ![i].rows = IF backend = "paging"
                             THEN getMessagesPaged(db, inflight[i], tieAsc)
                             ELSE getMessages(db, tieAsc)]
  /\ latestRows' = IF inflight[i].kind = "refresh" /\ inflight[i].issued = fetches
                   THEN inflight'[i].rows ELSE latestRows
  /\ UNCHANGED <<envVars, content, startedAway, messages, renderCount, hasMore, cursorVars, busy,
                 topLoading, bottomLoading, isInitialLoading, gestureVars,
                 isPostDialogOpen, mounted, observing, wasExhausted, boundVars>>

\* Request i fails: fetch() rejects, or the server answers 500 with
\* {error: ...}, on which mapDB / msg.id.toString() throws.  Nothing is stored.
\* No client reads res.status: which of the two happened is not recorded here.
Fail(i) ==
  /\ inflight[i].phase = "sent"
  /\ failures < MaxFailures
  /\ failures' = failures + 1
  /\ inflight' = [inflight EXCEPT ![i].phase = "served", ![i].ok = FALSE]
  /\ UNCHANGED <<envVars, content, latestRows, startedAway, db, emitted, messages, renderCount, hasMore, cursorVars, busy,
                 topLoading, bottomLoading, isInitialLoading, gestureVars,
                 isPostDialogOpen, mounted, observing, wasExhausted, posts,
                 otherPosts, fetches>>

\* app.post('/messages') serves another user's publish: one more row and its
\* broadcast.  No MessageWall listens to new_message.
otherPost ==
  /\ mounted
  /\ otherPosts < MaxOtherPosts
  /\ otherPosts' = otherPosts + 1
  /\ \E now \in Nows :
       LET row == [id |-> Len(db) + 1, created_at |-> now] IN
       /\ db' = Append(db, row)
       /\ emitted' = Append(emitted, row)
  /\ UNCHANGED <<envVars, content, latestRows, startedAway, messages, renderCount, hasMore, cursorVars, busy,
                 topLoading, bottomLoading, isInitialLoading, gestureVars,
                 isPostDialogOpen, inflight, mounted, observing, wasExhausted,
                 posts, fetches, failures>>

\* ------------------------------------------------------------ initial load
\* A guard released at the end of the try block only: still held when the
\* block threw.
busyAfterTryOnly(ok) == ~ok

\* finally { busyRef.current = false } (refreshingRef in "refresh"): the guard
\* after the handler has run, whether its try block completed (ok) or threw.
releaseBusy(ok) == FALSE

Settled(i, kind) ==
  /\ i \in 1..Len(inflight)
  /\ inflight[i].phase = "served"
  /\ inflight[i].kind = kind

\* list[0] taken where the last item is meant
First(s) == s[1]

Last(s) == s[Len(s)]

\* loadInitial of "pullup" after its awaits.
loadInitial_pullup(i) ==
  LET r == inflight[i]
      list == sortDesc(mapDB(r.rows))
  IN
  /\ variant = "pullup"
  /\ Settled(i, "initial")
  /\ inflight' = RemoveAt(inflight, i)
  /\ IF r.ok
     THEN /\ messages' = list
          /\ renderCount' = Min(PAGE_SIZE, Len(list))
          /\ oldestCursor' = IF Len(list) > 0 THEN Last(list).timestamp ELSE oldestCursor
          /\ hasMore' = IF Len(list) < PAGE_SIZE THEN FALSE ELSE hasMore
     ELSE UNCHANGED <<messages, renderCount, oldestCursor, hasMore>>
  /\ wasExhausted' = (wasExhausted \/ ~hasMore')
  /\ UNCHANGED <<envVars, content, latestRows, startedAway, db, emitted, newestCursor, busy, topLoading, bottomLoading,
                 isInitialLoading, gestureVars, isPostDialogOpen, mounted,
                 observing, boundVars>>

\* loadInitial of "sentinel" after its awaits.
loadInitial_sentinel(i) ==
  LET r == inflight[i]
      list == sortDesc(mapDB(r.rows))
  IN
  /\ variant = "sentinel"
  /\ Settled(i, "initial")
  /\ inflight' = RemoveAt(inflight, i)
  /\ IF r.ok
     THEN /\ messages' = list
          /\ renderCount' = Min(PAGE_SIZE, Len(list))
          /\ hasMore' = (Len(list) = PAGE_SIZE)
          /\ newestCursor' = IF Len(list) > 0 THEN list[1].timestamp ELSE newestCursor
          /\ oldestCursor' = IF Len(list) > 0 THEN Last(list).timestamp ELSE oldestCursor
     ELSE UNCHANGED <<messages, renderCount, hasMore, cursorVars>>
  /\ wasExhausted' = (wasExhausted \/ ~hasMore')
  /\ UNCHANGED <<envVars, content, latestRows, startedAway, db, emitted, busy, topLoading, bottomLoading, isInitialLoading,
                 gestureVars, isPostDialogOpen, mounted, observing, boundVars>>

\* useEffect(..., [loadMore]) of "loadmore": loadMore is a new function when
\* hasMore or isLoadingMore changed; the effect then runs again and attaches
\* an observer iff bottomRef.current is rendered (not the skeleton).
ObservingAfter(newHasMore, newLoadingMore, newInitialLoading, newMessages) ==
  IF newHasMore # hasMore \/ newLoadingMore # bottomLoading
  THEN ~(newInitialLoading /\ newMessages = <<>>)
  ELSE observing

\* loadInitial of "loadmore" after its awaits.
loadInitial_loadmore(i) ==
  LET r == inflight[i]
      list == mapDB(r.rows)
  IN
  /\ variant = "loadmore"
  /\ Settled(i, "initial")
  /\ inflight' = RemoveAt(inflight, i)
  /\ IF r.ok
     THEN /\ messages' = list
          /\ oldestCursor' = IF Len(list) > 0 THEN Last(list).timestamp ELSE oldestCursor
          /\ hasMore' = (Len(r.rows) = PAGE_SIZE)
     ELSE UNCHANGED <<messages, oldestCursor, hasMore>>
  /\ isInitialLoading' = FALSE
  /\ observing' = ObservingAfter(hasMore', bottomLoading, FALSE, messages')
  /\ wasExhausted' = (wasExhausted \/ ~hasMore')
  /\ UNCHANGED <<envVars, content, latestRows, startedAway, db, emitted, renderCount, newestCursor, busy, topLoading,
                 bottomLoading, gestureVars, isPostDialogOpen, mounted, boundVars>>

\* loadInitial of "bidir" after its awaits (no try / catch: a failure is an
\* unhandled rejection and changes nothing).
loadInitial_bidir(i) ==
  LET r == inflight[i]
      list == mapDB(r.rows)
  IN
  /\ variant = "bidir"
  /\ Settled(i, "initial")
  /\ inflight' = RemoveAt(inflight, i)
  /\ IF r.ok
     THEN /\ messages' = list
          /\ newestCursor' = IF Len(list) > 0 THEN list[1].timestamp ELSE newestCursor
          /\ oldestCursor' = IF Len(list) > 0 THEN Last(list).timestamp ELSE oldestCursor
     ELSE UNCHANGED <<messages, cursorVars>>
  /\ UNCHANGED <<envVars, content, latestRows, startedAway, db, emitted, renderCount, hasMore, busy, topLoading, bottomLoading,
                 isInitialLoading, gestureVars, isPostDialogOpen, mounted,
                 observing, wasExhausted, boundVars>>

\* loadMessages of "refresh" after its awaits; when onTouchEnd awaited it,
\* onTouchEnd's finally block follows: setIsRefreshing(false),
\* refreshingRef.current = false, finishReset().
loadMessages(i) ==
  LET r == inflight[i] IN
  /\ variant = "refresh"
  /\ Settled(i, "refresh")
  /\ inflight' = RemoveAt(inflight, i)
  /\ messages' = IF r.ok THEN mapDB(r.rows) ELSE messages
  /\ IF r.gesture
     THEN /\ topLoading' = FALSE
          /\ busy' = releaseBusy(r.ok)
          /\ topReady' = FALSE
          /\ topPull' = 0
          /\ pulling' = FALSE
     ELSE UNCHANGED <<topLoading, busy, topReady, topPull, pulling>>
  /\ UNCHANGED <<envVars, content, latestRows, startedAway, db, emitted, renderCount, hasMore, cursorVars, bottomLoading,
                 isInitialLoading, pullMode, startY, bottomPull, bottomReady,
                 isPostDialogOpen, mounted, observing, wasExhausted, boundVars>>

\* ------------------------------------------------------------- older pages
\* older.filter((o) => !idSet.has(o.id)), idSet built from the closed-over
\* `messages`
toAdd(older, closureIds) ==
  SelectSeqBy(older, {older[k] : k \in {j \in 1..Len(older) : older[j].id \notin closureIds}})

\* An older page that is dropped: setMessages((prev) => prev)
mergeOlderKeepsPrev(v, prev, closureIds, rows) == prev

\* The list an older page leaves behind, per variant.
\*   pullup:   [...prev, ...toAdd].sort(..) when toAdd is not empty
\*   sentinel: the Map merge of [...prev, ...older], sorted; older is sorted
\*   bidir:    the same merge; older is as the server sent it
\*   loadmore: [...prev, ...more]
mergeOlder(v, prev, closureIds, rows) ==
  LET sorted == sortDesc(mapDB(rows))
      add == toAdd(sorted, closureIds)
  IN CASE v = "pullup" -> IF Len(add) > 0 THEN sortDesc(prev \o add) ELSE prev
       [] v = "sentinel" -> IF Len(rows) > 0 THEN sortDesc(mapValues(prev \o sorted)) ELSE prev
       [] v = "bidir" -> IF Len(rows) > 0 THEN sortDesc(mapValues(prev \o mapDB(rows))) ELSE prev
       [] OTHER -> prev \o mapDB(rows)

\* What an older page adds to renderCount: setRenderCount((c) => c + toAdd.length)
\* in "pullup", setRenderCount((c) => c + older.length) in "sentinel".
creditOlder(v, closureIds, rows) ==
  CASE v = "pullup" -> Len(toAdd(mapDB(rows), closureIds))
    [] v = "sentinel" -> Len(rows)
    [] OTHER -> 0

\* The head of loadOlder without its busyRef test.
olderGuardIgnoringBusy ==
  CASE variant \in {"pullup", "sentinel"} ->
         hasMore /\ ~(oldestCursor = NULL /\ messages = <<>>)
    [] variant = "bidir" -> ~(oldestCursor = NULL /\ messages = <<>>)
    [] variant = "loadmore" -> hasMore /\ ~bottomLoading /\ oldestCursor # NULL
    [] OTHER -> FALSE

\* The guards at the head of loadOlder / loadMore.
olderGuard ==
  CASE variant \in {"pullup", "sentinel"} ->
         ~busy /\ hasMore /\ ~(oldestCursor = NULL /\ messages = <<>>)
    [] variant = "bidir" -> ~busy /\ ~(oldestCursor = NULL /\ messages = <<>>)
    [] variant = "loadmore" -> hasMore /\ ~bottomLoading /\ oldestCursor # NULL
    [] OTHER -> FALSE

\* loadOlder / loadMore up to its fetch: busyRef.current = true (there is no
\* busyRef in "loadmore"), the loading flag, the request.
StartOlder(gesture) ==
  /\ CanFetch
  /\ fetches' = fetches + 1
  /\ busy' = IF variant = "loadmore" THEN busy ELSE TRUE
  /\ bottomLoading' = TRUE
  /\ inflight' = Append(inflight, OlderRequest(gesture))
  /\ observing' = IF variant = "loadmore"
                  THEN ObservingAfter(hasMore, TRUE, isInitialLoading, messages)
                  ELSE observing

\* What onTouchEnd does once the awaited loadOlder() has returned.
BottomTail ==
  /\ bottomReady' = FALSE
  /\ bottomPull' = 0
  /\ pulling' = FALSE
  /\ pullMode' = "none"

\* loadOlder of "pullup" after its awaits, with the finally block.
loadOlder_pullup(i) ==
  LET r == inflight[i]
      add == toAdd(sortDesc(mapDB(r.rows)), r.closureIds)
  IN
  /\ variant = "pullup"
  /\ Settled(i, "older")
  /\ inflight' = RemoveAt(inflight, i)
  /\ IF r.ok
     THEN /\ messages' = mergeOlder(variant, messages, r.closureIds, r.rows)
          /\ renderCount' = renderCount + creditOlder(variant, r.closureIds, r.rows)
          /\ oldestCursor' = IF Len(add) > 0 THEN Last(add).timestamp ELSE oldestCursor
          /\ hasMore' = IF Len(add) < PAGE_SIZE THEN FALSE ELSE hasMore
     ELSE UNCHANGED <<messages, renderCount, oldestCursor, hasMore>>
  /\ bottomLoading' = FALSE
  /\ busy' = releaseBusy(r.ok)
  /\ IF r.gesture THEN BottomTail
     ELSE UNCHANGED <<bottomReady, bottomPull, pulling, pullMode>>
  /\ wasExhausted' = (wasExhausted \/ ~hasMore')
  /\ UNCHANGED <<envVars, content, latestRows, startedAway, db, emitted, newestCursor, topLoading, isInitialLoading, startY,
                 topPull, topReady, isPostDialogOpen, mounted, observing, boundVars>>

\* loadOlder of "sentinel" after its awaits, with the finally block.  A throw
\* (mapDB, toISOString) leaves the try block where it happens: what was set
\* before it stays set.
loadOlder_sentinel(i) ==
  LET r == inflight[i]
      older == sortDesc(mapDB(r.rows))
      \* the two toISOString() calls, the second made only when the first
      \* returned and newestCursorRef is null
      threwAtOldest == Len(older) > 0 /\ toISOStringThrows(Last(older))
      threwAtNewest == /\ Len(older) > 0 /\ ~threwAtOldest
                       /\ newestCursor = NULL /\ toISOStringThrows(older[1])
  IN
  /\ variant = "sentinel"
  /\ Settled(i, "older")
  /\ inflight' = RemoveAt(inflight, i)
  /\ IF r.ok /\ ~mapDBThrows(r.rows)
     THEN /\ messages' = mergeOlder(variant, messages, r.closureIds, r.rows)
          /\ renderCount' = renderCount + creditOlder(variant, r.closureIds, r.rows)
          /\ oldestCursor' = IF Len(older) > 0 /\ ~threwAtOldest
                             THEN Last(older).timestamp ELSE oldestCursor
          /\ newestCursor' = IF Len(older) > 0 /\ ~threwAtOldest /\ ~threwAtNewest
                                /\ newestCursor = NULL
                             THEN older[1].timestamp ELSE newestCursor
          /\ hasMore' = IF Len(older) < PAGE_SIZE /\ ~threwAtOldest /\ ~threwAtNewest
                        THEN FALSE ELSE hasMore
     ELSE UNCHANGED <<messages, renderCount, cursorVars, hasMore>>
  /\ bottomLoading' = FALSE
  /\ busy' = releaseBusy(r.ok)
  /\ wasExhausted' = (wasExhausted \/ ~hasMore')
  /\ UNCHANGED <<envVars, content, latestRows, startedAway, db, emitted, topLoading, isInitialLoading, gestureVars,
                 isPostDialogOpen, mounted, observing, boundVars>>

\* A loading flag cleared at the end of the try block only: still set when
\* the block threw.
loadingAfterTryOnly(ok) == ~ok

\* finally { setTopLoading(false) } / { setBottomLoading(false) } of "bidir":
\* the flag after the handler has run, whether its try block completed (ok)
\* or threw.
loadingAfter(ok) == FALSE

\* loadOlder of "bidir" after its awaits, with the finally block.
loadOlder_bidir(i) ==
  LET r == inflight[i]
      older == mapDB(r.rows)
  IN
  /\ variant = "bidir"
  /\ Settled(i, "older")
  /\ inflight' = RemoveAt(inflight, i)
  /\ IF r.ok
     THEN /\ messages' = mergeOlder(variant, messages, r.closureIds, r.rows)
          /\ oldestCursor' = IF Len(older) > 0 THEN Last(older).timestamp ELSE oldestCursor
          /\ newestCursor' = IF Len(older) > 0 /\ newestCursor = NULL
                             THEN older[1].timestamp ELSE newestCursor
     ELSE UNCHANGED <<messages, cursorVars>>
  /\ bottomLoading' = loadingAfter(r.ok)
  /\ busy' = releaseBusy(r.ok)
  /\ IF r.gesture THEN BottomTail
     ELSE UNCHANGED <<bottomReady, bottomPull, pulling, pullMode>>
  /\ UNCHANGED <<envVars, content, latestRows, startedAway, db, emitted, renderCount, hasMore, topLoading, isInitialLoading,
                 startY, topPull, topReady, isPostDialogOpen, mounted, observing,
                 wasExhausted, boundVars>>

\* loadMore of "loadmore" after its awaits, with the finally block.
loadMore(i) ==
  LET r == inflight[i]
      more == mapDB(r.rows)
  IN
  /\ variant = "loadmore"
  /\ Settled(i, "older")
  /\ inflight' = RemoveAt(inflight, i)
  /\ IF r.ok
     THEN /\ messages' = mergeOlder(variant, messages, r.closureIds, r.rows)
          /\ oldestCursor' = IF Len(more) > 0 THEN Last(more).timestamp ELSE oldestCursor
          /\ hasMore' = IF Len(more) < PAGE_SIZE THEN FALSE ELSE hasMore
     ELSE UNCHANGED <<messages, oldestCursor, hasMore>>
  /\ bottomLoading' = FALSE
  /\ observing' = ObservingAfter(hasMore', FALSE, isInitialLoading, messages')
  /\ wasExhausted' = (wasExhausted \/ ~hasMore')
  /\ UNCHANGED <<envVars, content, latestRows, startedAway, db, emitted, renderCount, newestCursor, busy, topLoading,
                 isInitialLoading, gestureVars, isPostDialogOpen, mounted, boundVars>>

\* ------------------------------------------------------------- newer pages
\* The list a newer page leaves behind in "bidir": the Map merge of
\* [...newer, ...prev], sorted.
mergeNewer(prev, rows) ==
  IF Len(rows) > 0 THEN sortDesc(mapValues(mapDB(rows) \o prev)) ELSE prev

\* loadNewer up to its fetch.
StartNewer(gesture) ==
  /\ CanFetch
  /\ fetches' = fetches + 1
  /\ busy' = TRUE
  /\ topLoading' = TRUE
  /\ inflight' = Append(inflight, NewerRequest(gesture))

\* loadNewer of "bidir" after its awaits, with the finally block; when
\* onTouchEnd awaited it: setTopLoading(false), resetTopUI(), the refs.
loadNewer(i) ==
  LET r == inflight[i]
      newer == mapDB(r.rows)
  IN
  /\ variant = "bidir"
  /\ Settled(i, "newer")
  /\ inflight' = RemoveAt(inflight, i)
  /\ IF r.ok
     THEN /\ messages' = mergeNewer(messages, r.rows)
          /\ newestCursor' = IF Len(newer) > 0 THEN newer[1].timestamp ELSE newestCursor
          /\ oldestCursor' = IF Len(newer) > 0 /\ oldestCursor = NULL
                             THEN Last(newer).timestamp ELSE oldestCursor
     ELSE UNCHANGED <<messages, cursorVars>>
  /\ topLoading' = loadingAfter(r.ok)
  /\ busy' = releaseBusy(r.ok)
  /\ IF r.gesture
     THEN /\ topReady' = FALSE
          /\ topPull' = 0
          /\ pulling' = FALSE
          /\ pullMode' = "none"
     ELSE UNCHANGED <<topReady, topPull, pulling, pullMode>>
  /\ UNCHANGED <<envVars, content, latestRows, startedAway, db, emitted, renderCount, hasMore, bottomLoading, isInitialLoading,
                 startY, bottomPull, bottomReady, isPostDialogOpen, mounted,
                 observing, wasExhausted, boundVars>>

\* ----------------------------------------------------------------- publish
\* The new item put at the end: [...prev, newMessage]
addMessageAtEnd(v, prev, m) == prev \o <<m>>

\* The list handleAddMessage leaves behind: [newMessage, ...prev], which
\* only "pullup" sorts.
addMessage(v, prev, m) ==
  IF v = "pullup" THEN sortDesc(<<m>> \o prev) ELSE <<m>> \o prev

\* The oldest cursor moved to the published item whatever it was.
resetOldest(v, oldest, t) == t

\* if (!oldestCursorRef.current) oldestCursorRef.current = <time of the new
\* item>; "loadmore" and "refresh" leave it alone.
seedOldest(v, oldest, t) ==
  IF v \in {"pullup", "sentinel", "bidir"} /\ oldest = NULL THEN t ELSE oldest

\* The floating button: onClick={() => setIsPostDialogOpen(true)}.
openPostDialog ==
  /\ mounted
  /\ ~isPostDialogOpen
  /\ posts < MaxPosts
  /\ isPostDialogOpen' = TRUE
  /\ UNCHANGED <<envVars, content, latestRows, startedAway, db, emitted, messages, renderCount, hasMore, cursorVars, busy,
                 topLoading, bottomLoading, isInitialLoading, gestureVars,
                 inflight, mounted, observing, wasExhausted, boundVars>>

\* PostMessageDialog.handleSubmit with valid content: onSubmit, and
\* handleAddMessage up to its fetch (POST /messages).  No guard is taken.
handleSubmit ==
  /\ isPostDialogOpen
  /\ posts < MaxPosts
  /\ posts' = posts + 1
  /\ inflight' = Append(inflight, Request("post", NULL, NULL, 0, 1, {}, FALSE))
  /\ content' = EmptyContent
  /\ UNCHANGED <<envVars, latestRows, startedAway, db, emitted, messages, renderCount, hasMore, cursorVars, busy,
                 topLoading, bottomLoading, isInitialLoading, gestureVars,
                 isPostDialogOpen, mounted, observing, wasExhausted, otherPosts,
                 fetches, failures>>

\* setIsPostDialogOpen(false) moved into a finally block
closeDialogAlways(ok, open) == FALSE

\* setIsPostDialogOpen(false), the last statement of the try block: not
\* reached when the block threw.
closeDialog(ok, open) == IF ok THEN FALSE ELSE open

\* handleAddMessage after its awaits.
handleAddMessage(i) ==
  LET r == inflight[i]
      newMessage == mapDB(r.rows)[1]
  IN
  /\ Settled(i, "post")
  /\ inflight' = RemoveAt(inflight, i)
  /\ IF r.ok
     THEN /\ messages' = addMessage(variant, messages, newMessage)
          /\ renderCount' = IF variant = "pullup" THEN renderCount + 1 ELSE renderCount
          /\ newestCursor' = IF variant \in {"sentinel", "bidir"}
                             THEN newMessage.timestamp ELSE newestCursor
          /\ oldestCursor' = seedOldest(variant, oldestCursor, newMessage.timestamp)
     ELSE UNCHANGED <<messages, renderCount, cursorVars>>
  /\ isPostDialogOpen' = closeDialog(r.ok, isPostDialogOpen)
  /\ UNCHANGED <<envVars, content, latestRows, startedAway, db, emitted, hasMore, busy, topLoading, bottomLoading,
                 isInitialLoading, gestureVars, mounted, observing, wasExhausted,
                 boundVars>>

\* ---------------------------------------------------------------- triggers
\* What a trigger does when it calls loadOlder / loadMore: the request, or
\* nothing at all when a guard returns early.
CallOlder ==
  IF olderGuard
  THEN /\ StartOlder(FALSE)
       /\ UNCHANGED <<envVars, content, latestRows, startedAway, db, emitted, messages, renderCount, hasMore, cursorVars,
                      topLoading, isInitialLoading, gestureVars, isPostDialogOpen,
                      mounted, wasExhausted, posts, otherPosts, failures>>
  ELSE UNCHANGED vars

\* The "load older" button of "pullup": rendered while hasMore, disabled
\* while bottomLoading.
onClick ==
  /\ variant = "pullup"
  /\ mounted
  /\ hasMore
  /\ ~bottomLoading
  /\ CallOlder

\* The IntersectionObserver callback with entry.isIntersecting, in
\* "sentinel" and "loadmore".
onIntersect ==
  /\ variant \in {"sentinel", "loadmore"}
  /\ observing
  /\ CallOlder

\* onScroll of "refresh" with scrollTop <= 50: loadMessages() up to its fetch.
onScroll ==
  /\ variant = "refresh"
  /\ mounted
  /\ ~busy
  /\ CanFetch
  /\ fetches' = fetches + 1
  /\ inflight' = Append(inflight, PlainRequest(FALSE))
  /\ UNCHANGED <<envVars, content, latestRows, startedAway, db, emitted, messages, renderCount, hasMore, cursorVars, busy,
                 topLoading, bottomLoading, isInitialLoading, gestureVars,
                 isPostDialogOpen, mounted, observing, wasExhausted, posts,
                 otherPosts, failures>>

\* ---------------------------------------------------------------- gestures
\* The touch listeners exist in "pullup" (only while hasMore: the effect
\* returns before addEventListener otherwise), "bidir" and "refresh".
Listening ==
  /\ mounted
  /\ \/ variant = "pullup" /\ hasMore
     \/ variant \in {"bidir", "refresh"}

\* raw * DAMPING without the cap
dampedUncapped(raw) == raw \div DAMPING_DEN

\* Math.min(MAX_PULL, raw * DAMPING); the touch positions are even numbers,
\* so the halved distance is a whole number of pixels.
damped(raw) == Min(MAX_PULL, raw \div DAMPING_DEN)

\* The scroll position is at the edge of a direction the variant pulls in.
AtAnEdge(atTop, atBottom) ==
  CASE variant = "pullup" -> atBottom
    [] variant = "refresh" -> atTop
    [] OTHER -> atTop \/ atBottom

\* onTouchStart: y is the touch's clientY; atTop and atBottom are what
\* isAtTop() and isAtBottom() (scrollTop <= 0 in "refresh") answer.
onTouchStart(y, atTop, atBottom) ==
  /\ Listening
  /\ IF busy
     THEN UNCHANGED <<startY, pulling, pullMode>>
     ELSE CASE variant = "pullup" ->
                 /\ startY' = y
                 /\ pulling' = atBottom
                 /\ pullMode' = IF atBottom THEN "bottom" ELSE "none"
            [] variant = "bidir" ->
                 /\ startY' = y
                 /\ pulling' = (atTop \/ atBottom)
                 /\ pullMode' = IF atTop THEN "top"
                                ELSE IF atBottom THEN "bottom" ELSE "none"
            [] OTHER ->
                 /\ startY' = IF atTop THEN y ELSE startY
                 /\ pulling' = IF atTop THEN TRUE ELSE pulling
                 /\ pullMode' = pullMode
  /\ startedAway' = ~AtAnEdge(atTop, atBottom)
  /\ UNCHANGED <<envVars, content, latestRows, db, emitted, messages, renderCount, hasMore, cursorVars, busy,
                 topLoading, bottomLoading, isInitialLoading, topPull, topReady,
                 bottomPull, bottomReady, isPostDialogOpen, inflight, mounted,
                 observing, wasExhausted, boundVars>>

\* onTouchMove: y is the touch's clientY.
onTouchMove(y) ==
  LET dy == y - startY IN
  /\ Listening
  /\ IF ~pulling \/ busy
     THEN UNCHANGED <<topPull, topReady, bottomPull, bottomReady>>
     ELSE CASE variant = "refresh" ->
                 /\ topPull' = IF dy > 0 THEN damped(dy) ELSE topPull
                 /\ topReady' = IF dy > 0 THEN damped(dy) >= THRESHOLD ELSE topReady
                 /\ UNCHANGED <<bottomPull, bottomReady>>
            [] pullMode = "top" ->
                 /\ topPull' = IF dy > 0 THEN damped(dy) ELSE 0
                 /\ topReady' = IF dy > 0 THEN damped(dy) >= THRESHOLD ELSE FALSE
                 /\ UNCHANGED <<bottomPull, bottomReady>>
            [] pullMode = "bottom" ->
                 /\ bottomPull' = IF dy < 0 THEN damped(-dy) ELSE 0
                 /\ bottomReady' = IF dy < 0 THEN damped(-dy) >= THRESHOLD ELSE FALSE
                 /\ UNCHANGED <<topPull, topReady>>
            [] OTHER -> UNCHANGED <<topPull, topReady, bottomPull, bottomReady>>
  /\ UNCHANGED <<envVars, content, latestRows, startedAway, db, emitted, messages, renderCount, hasMore, cursorVars, busy,
                 topLoading, bottomLoading, isInitialLoading, pulling, pullMode,
                 startY, isPostDialogOpen, inflight, mounted, observing,
                 wasExhausted, boundVars>>

\* onTouchEnd finds no gesture or a busy guard: the reset branch.
TouchEndReset ==
  /\ ~pulling \/ busy
  /\ topReady' = IF variant = "pullup" THEN topReady ELSE FALSE
  /\ topPull' = IF variant = "pullup" THEN topPull ELSE 0
  /\ bottomReady' = IF variant = "refresh" THEN bottomReady ELSE FALSE
  /\ bottomPull' = IF variant = "refresh" THEN bottomPull ELSE 0
  /\ pulling' = FALSE
  /\ pullMode' = "none"
  /\ UNCHANGED <<busy, topLoading, bottomLoading, inflight, fetches, observing>>

\* onTouchEnd in top mode ("bidir"), or with the one gesture of "refresh":
\* when ready, the loading bar and loadNewer() / loadMessages() up to the
\* fetch; otherwise the reset.
TouchEndTop ==
  /\ pulling /\ ~busy
  /\ variant = "refresh" \/ (variant = "bidir" /\ pullMode = "top")
  /\ IF topReady
     THEN /\ topPull' = LOADING_PULL
          /\ IF variant = "bidir" THEN StartNewer(TRUE)
             ELSE /\ CanFetch
                  /\ fetches' = fetches + 1
                  /\ busy' = TRUE
                  /\ topLoading' = TRUE
                  /\ inflight' = Append(inflight, PlainRequest(TRUE))
          /\ UNCHANGED <<topReady, pulling, pullMode>>
     ELSE /\ topLoading' = FALSE
          /\ topReady' = FALSE
          /\ topPull' = 0
          /\ pulling' = FALSE
          /\ pullMode' = "none"
          /\ UNCHANGED <<busy, inflight, fetches>>
  /\ UNCHANGED <<bottomLoading, bottomReady, bottomPull, observing>>

\* onTouchEnd in bottom mode ("pullup", "bidir"): when ready, the loading
\* bar and loadOlder(); a loadOlder() that returns at a guard is followed at
\* once by the rest of onTouchEnd.
TouchEndBottom ==
  /\ pulling /\ ~busy
  /\ variant \in {"pullup", "bidir"} /\ pullMode = "bottom"
  /\ IF bottomReady /\ olderGuard
     THEN /\ bottomPull' = LOADING_PULL
          /\ StartOlder(TRUE)
          /\ UNCHANGED <<bottomReady, pulling, pullMode>>
     ELSE /\ bottomLoading' = FALSE
          /\ BottomTail
          /\ UNCHANGED <<busy, inflight, fetches, observing>>
  /\ UNCHANGED <<topLoading, topReady, topPull>>

onTouchEnd ==
  /\ Listening
  /\ TouchEndReset \/ TouchEndTop \/ TouchEndBottom
  /\ startedAway' = FALSE
  /\ UNCHANGED <<envVars, content, latestRows, db, emitted, messages, renderCount, hasMore, cursorVars,
                 isInitialLoading, startY, isPostDialogOpen, mounted,
                 wasExhausted, posts, otherPosts, failures>>

\* ------------------------------------------------------------ specification
\* The continuation of an older-page request, by variant.
olderPageSettles(i) ==
  CASE variant = "pullup" -> loadOlder_pullup(i)
    [] variant = "sentinel" -> loadOlder_sentinel(i)
    [] variant = "bidir" -> loadOlder_bidir(i)
    [] OTHER -> loadMore(i)

Next ==
  \/ Mount
  \/ \E i \in 1..Len(inflight) : Serve(i)
  \/ \E i \in 1..Len(inflight) : Fail(i)
  \/ otherPost
  \/ \E i \in 1..Len(inflight) : loadInitial_pullup(i)
  \/ \E i \in 1..Len(inflight) : loadInitial_sentinel(i)
  \/ \E i \in 1..Len(inflight) : loadInitial_loadmore(i)
  \/ \E i \in 1..Len(inflight) : loadInitial_bidir(i)
  \/ \E i \in 1..Len(inflight) : loadMessages(i)
  \/ \E i \in 1..Len(inflight) : olderPageSettles(i)
  \/ \E i \in 1..Len(inflight) : loadNewer(i)
  \/ \E i \in 1..Len(inflight) : handleAddMessage(i)
  \/ openPostDialog
  \/ handleSubmit
  \/ onClick
  \/ onIntersect
  \/ onScroll
  \/ \E y \in TouchStartYs, atTop \in BOOLEAN, atBottom \in BOOLEAN :
       onTouchStart(y, atTop, atBottom)
  \/ \E y \in TouchYs : onTouchMove(y)
  \/ onTouchEnd

Spec == Init /\ [][Next]_vars

\* ---------------------------------------------------------- malformed pages
\* The session of the "sentinel" variant in which an older page may arrive
\* with a malformed last row: its id missing, or its created_at unparsable.
\* src/server.js sends rows as PostgreSQL returns them; such a page comes from
\* whatever else answers GET /messages for the client.
ServeMalformed(i) ==
  /\ inflight[i].phase = "sent"
  /\ inflight[i].kind = "older"
  /\ failures < MaxFailures
  /\ failures' = failures + 1
  /\ \E tieAsc \in BOOLEAN, field \in {"id", "created_at"} :
       LET page == IF backend = "paging"
                   THEN getMessagesPaged(db, inflight[i], tieAsc)
                   ELSE getMessages(db, tieAsc)
           n == Len(page)
       IN /\ n > 0
          /\ inflight' = [inflight EXCEPT ![i].phase = "served", ![i].status = 200,
               ![i].rows = IF field = "id" THEN [page EXCEPT ![n].id = NULL]
                           ELSE [page EXCEPT ![n].created_at = InvalidDate]]
  /\ UNCHANGED <<envVars, content, latestRows, startedAway, db, emitted, messages, renderCount, hasMore, cursorVars, busy,
                 topLoading, bottomLoading, isInitialLoading, gestureVars,
                 isPostDialogOpen, mounted, observing, wasExhausted, posts,
                 otherPosts, fetches>>

InitSentinel == Init /\ variant = "sentinel"

NextSentinel ==
  \/ Mount
  \/ \E i \in 1..Len(inflight) : Serve(i)
  \/ \E i \in 1..Len(inflight) : ServeMalformed(i)
  \/ \E i \in 1..Len(inflight) : Fail(i)
  \/ otherPost
  \/ \E i \in 1..Len(inflight) : loadInitial_sentinel(i)
  \/ \E i \in 1..Len(inflight) : olderPageSettles(i)
  \/ \E i \in 1..Len(inflight) : handleAddMessage(i)
  \/ openPostDialog
  \/ handleSubmit
  \/ onIntersect

SpecMalformed == InitSentinel /\ [][NextSentinel]_vars

\* ------------------------------------------------------------ long table
\* The session of the "sentinel" variant over a table of LongTable rows with
\* a backend that honours before: every older page brings PAGE_SIZE new
\* items, messages.length changes, loadOlder is re-created and the observer
\* effect subscribes again, so the observer reports the sentinel once more
\* while it is inside the trigger zone.
InitLongTable ==
  /\ variant = "sentinel"
  /\ backend = "paging"
  /\ db = MkRows(LongTable, 0)
  /\ InitClient

NextLongTable ==
  \/ Mount
  \/ \E i \in 1..Len(inflight) : Serve(i)
  \/ \E i \in 1..Len(inflight) : Fail(i)
  \/ otherPost
  \/ \E i \in 1..Len(inflight) : loadInitial_sentinel(i)
  \/ \E i \in 1..Len(inflight) : olderPageSettles(i)
  \/ \E i \in 1..Len(inflight) : handleAddMessage(i)
  \/ openPostDialog
  \/ handleSubmit
  \/ onIntersect

SpecLongTable == InitLongTable /\ [][NextLongTable]_vars

\* ------------------------------------------------------- the POST handler
\* app.post('/messages') step by step, for the two servers of the repository:
\* "repo" is src/server.js, whose handler body is a try block with a catch
\* that answers 500; "part_005" is the server whose handler has neither.
Servers == {"repo", "part_005"}

ServerSteps(i) ==
  /\ inflight[i].kind = "post"
  /\ UNCHANGED <<envVars, content, latestRows, startedAway, messages, renderCount, hasMore, cursorVars, busy,
                 topLoading, bottomLoading, isInitialLoading, gestureVars,
                 isPostDialogOpen, mounted, observing, wasExhausted, posts,
                 otherPosts, fetches>>

\* await pool.query('INSERT ... RETURNING *') resolves: the row is stored.
PostInsert(i) ==
  /\ ServerSteps(i)
  /\ inflight[i].phase = "sent"
  /\ \E now \in Nows :
       LET row == [id |-> Len(db) + 1, created_at |-> now] IN
       /\ db' = Append(db, row)
       /\ inflight' = [inflight EXCEPT ![i].phase = "inserted", ![i].rows = <<row>>]
  /\ UNCHANGED <<emitted, failures>>

\* io.emit('new_message', msg)
PostEmit(i) ==
  /\ ServerSteps(i)
  /\ inflight[i].phase = "inserted"
  /\ emitted' = Append(emitted, inflight[i].rows[1])
  /\ inflight' = [inflight EXCEPT ![i].phase = "emitted"]
  /\ UNCHANGED <<db, failures>>

\* res.status(201).json(msg)
PostRespond(i) ==
  /\ ServerSteps(i)
  /\ inflight[i].phase = "emitted"
  /\ inflight' = [inflight EXCEPT ![i].phase = "served", ![i].status = 201]
  /\ UNCHANGED <<db, emitted, failures>>

\* await pool.query(..) rejects: nothing is stored.
PostInsertFails(i) ==
  /\ ServerSteps(i)
  /\ inflight[i].phase = "sent"
  /\ failures < MaxFailures
  /\ failures' = failures + 1
  /\ inflight' = [inflight EXCEPT ![i].phase = "rejected"]
  /\ UNCHANGED <<db, emitted>>

\* catch (err) { console.error(err); res.status(500).json({ error: .. }) }
PostRespondError(i) ==
  /\ ServerSteps(i)
  /\ backend = "repo"
  /\ inflight[i].phase = "rejected"
  /\ inflight' = [inflight EXCEPT ![i].phase = "served", ![i].ok = FALSE,
                                  ![i].status = 500]
  /\ UNCHANGED <<db, emitted, failures>>

\* Without a try block the rejection leaves the async handler unhandled and
\* Express sends nothing.  Where Node ends the process on an unhandled
\* rejection the connection closes and fetch() rejects: this step.  Where it
\* only warns, the request stays unanswered: no step at all.
PostUnhandledRejection(i) ==
  /\ ServerSteps(i)
  /\ backend = "part_005"
  /\ inflight[i].phase = "rejected"
  /\ inflight' = [inflight EXCEPT ![i].phase = "served", ![i].ok = FALSE]
  /\ UNCHANGED <<db, emitted, failures>>

\* GET /messages, both servers: Serve for the requests that are not a POST.
ServeGet(i) ==
  /\ inflight[i].kind # "post"
  /\ Serve(i)

InitServer ==
  /\ variant = "pullup"
  /\ backend \in Servers
  /\ db \in {MkRows(0, 0), MkRows(3, 2)}
  /\ InitClient

NextServer ==
  \/ Mount
  \/ \E i \in 1..Len(inflight) : ServeGet(i)
  \/ \E i \in 1..Len(inflight) : PostInsert(i)
  \/ \E i \in 1..Len(inflight) : PostEmit(i)
  \/ \E i \in 1..Len(inflight) : PostRespond(i)
  \/ \E i \in 1..Len(inflight) : PostInsertFails(i)
  \/ \E i \in 1..Len(inflight) : PostRespondError(i)
  \/ \E i \in 1..Len(inflight) : PostUnhandledRejection(i)
  \/ otherPost
  \/ \E i \in 1..Len(inflight) : loadInitial_pullup(i)
  \/ \E i \in 1..Len(inflight) : olderPageSettles(i)
  \/ \E i \in 1..Len(inflight) : handleAddMessage(i)
  \/ openPostDialog
  \/ handleSubmit
  \/ onClick

SpecServer == InitServer /\ [][NextServer]_vars

\* ----------------------------------------------------------- touch gestures
\* The sessions of the variants with touch listeners, with drags of several
\* lengths: below, at and above the threshold, and beyond the cap.
RawDistances == {0, 118, 120, 200, 400}

\* clientY of the touchmove events: the start position moved by a raw
\* distance, up or down
GestureYs ==
  UNION {{y - d, y + d} : <<y, d>> \in TouchStartYs \X RawDistances}

InitGesture ==
  /\ variant \in {"pullup", "bidir", "refresh"}
  /\ backend \in Backends
  /\ variant = "refresh" => backend = "repo"
  /\ db = IF variant = "refresh" THEN MkRows(3, 2) ELSE MkRows(10, 0)
  /\ InitClient

NextGesture ==
  \/ Mount
  \/ \E i \in 1..Len(inflight) : Serve(i)
  \/ \E i \in 1..Len(inflight) : Fail(i)
  \/ \E i \in 1..Len(inflight) : loadInitial_pullup(i)
  \/ \E i \in 1..Len(inflight) : loadInitial_bidir(i)
  \/ \E i \in 1..Len(inflight) : loadMessages(i)
  \/ \E i \in 1..Len(inflight) : olderPageSettles(i)
  \/ \E i \in 1..Len(inflight) : loadNewer(i)
  \/ onClick
  \/ onScroll
  \/ \E y \in TouchStartYs, atTop \in BOOLEAN, atBottom \in BOOLEAN :
       onTouchStart(y, atTop, atBottom)
  \/ \E y \in GestureYs : onTouchMove(y)
  \/ onTouchEnd

SpecGesture == InitGesture /\ [][NextGesture]_vars

\* ------------------------------------------------------------------ claims
\* Request i is an older page that arrived intact and is handled in this step.
OlderPageMerged(i) ==
  /\ Settled(i, "older")
  /\ inflight[i].ok
  /\ inflight' = RemoveAt(inflight, i)

\* This step sends an older-page request.
OlderRequestIssued ==
  /\ Len(inflight') = Len(inflight) + 1
  /\ Last(inflight').kind = "older"

PageFetchesInFlight ==
  {i \in 1..Len(inflight) : inflight[i].kind \in {"older", "newer", "refresh"}}

\* C1: the loaded list never holds two items with the same id.
C1_NoDuplicateIds == Cardinality(Ids(messages)) = Len(messages)

\* C2: at most one page fetch (older, newer or refresh) is in flight at any
\* moment, whichever trigger started it.
C2_SingleFlight == Cardinality(PageFetchesInFlight) <= 1

\* C3: the loaded list is sorted by creation time, newest first.
C3_SortedByCreationTime ==
  \A i, j \in 1..Len(messages) :
    i < j => messages[i].timestamp >= messages[j].timestamp

\* C4: of two loaded items with the same creation time, the one with the
\* higher id comes first.
C4_TiesByIdDescending ==
  \A i, j \in 1..Len(messages) :
    (i < j /\ messages[i].timestamp = messages[j].timestamp
           /\ messages[i].id # messages[j].id)
      => messages[i].id > messages[j].id

\* C5: merging a fetched page a second time leaves the list as the first
\* merge left it and credits no item to renderCount.
C5_MergeTwiceIsMergeOnce ==
  \A i \in 1..Len(inflight) :
    (Settled(i, "older") /\ inflight[i].ok) =>
      LET rows == inflight[i].rows
          once == mergeOlder(variant, messages, Ids(messages), rows)
          twice == mergeOlder(variant, once, Ids(once), rows)
      IN /\ twice = once
         /\ creditOlder(variant, Ids(once), rows) = 0

\* C6: the oldest cursor never moves to a later instant.
C6_OldestNeverIncreases ==
  [][oldestCursor # NULL => (oldestCursor' # NULL /\ oldestCursor' <= oldestCursor)]_vars

\* C7: the newest cursor never moves to an earlier instant.
C7_NewestNeverDecreases ==
  [][newestCursor # NULL => (newestCursor' # NULL /\ newestCursor' >= newestCursor)]_vars

\* C8: an older page sets hasMore to false exactly when the server returned
\* fewer than PAGE_SIZE items; a page of PAGE_SIZE items leaves hasMore as it
\* was, whether or not some of them are already loaded.
C8_ExhaustionIffShortPage ==
  [][\A i \in 1..Len(inflight) :
       (OlderPageMerged(i) /\ variant \in {"pullup", "sentinel", "loadmore"})
         => hasMore' = (IF Len(inflight[i].rows) < PAGE_SIZE THEN FALSE ELSE hasMore)]_vars

\* C9: once hasMore is false, no later event sets it back to true.
C9_ExhaustionIsPermanent == [][~hasMore => ~hasMore']_vars

\* C10: once hasMore has been false, no trigger sends another older-page
\* request for the rest of the session.
C10_NoOlderFetchAfterExhaustion == [][wasExhausted => ~OlderRequestIssued]_vars

\* Request r was sent by a handler that set the guard before its fetch:
\* loadOlder / loadNewer (busyRef), or the gesture refresh (refreshingRef).
HoldsGuard(r) ==
  \/ r.kind \in {"older", "newer"} /\ variant \in {"pullup", "sentinel", "bidir"}
  \/ r.kind = "refresh" /\ r.gesture

\* The handler of guard-holding request i runs its continuation in this step.
GuardedSettles(i) ==
  /\ inflight[i].phase = "served"
  /\ HoldsGuard(inflight[i])
  /\ inflight' = RemoveAt(inflight, i)

\* C11: the guard is held only while the fetch that took it is in flight, and
\* the step in which that fetch settles, with a page or with a failure, leaves
\* the guard free.
C11_GuardReleasedOnSettle ==
  /\ [](busy => \E i \in 1..Len(inflight) : HoldsGuard(inflight[i]))
  /\ [][\A i \in 1..Len(inflight) : GuardedSettles(i) => ~busy']_vars

\* A page fetch has failed and settled (the initial load had succeeded: the
\* list is not empty and nothing was published), and the guard is free.
C11_FailedFetchReleased ==
  /\ variant \in {"pullup", "sentinel"}
  /\ failures = 1 /\ posts = 0 /\ fetches >= 1
  /\ messages # <<>>
  /\ inflight = <<>>
  /\ ~busy

\* A trigger fires in this step: the button, the observer callback, a
\* touchend or a scroll near the top.
TriggerStep == onClick \/ onIntersect \/ onTouchEnd \/ onScroll

\* C12: a trigger that fires while the guard is busy sends no request and
\* leaves the list, both cursors, hasMore and renderCount as they were.
C12_BusyTriggerIsNoOp ==
  [][(busy /\ TriggerStep) =>
       UNCHANGED <<inflight, messages, cursorVars, hasMore, renderCount>>]_vars

\* In "bidir" the guard is taken by a touchend that leaves pullingRef set:
\* pullingRef is clear while the gesture's request is still in flight only
\* after a further touchend found the guard busy.
C12_TouchEndFoundGuardBusy ==
  /\ variant = "bidir"
  /\ busy
  /\ ~pulling
  /\ \E i \in 1..Len(inflight) : inflight[i].gesture /\ HoldsGuard(inflight[i])

\* The older or newer fetch i failed and its handler runs the catch and
\* finally blocks in this step.
FailedPageSettles(i) ==
  /\ inflight[i].phase = "served"
  /\ inflight[i].kind \in {"older", "newer"}
  /\ ~inflight[i].ok
  /\ inflight' = RemoveAt(inflight, i)

\* C13: the step that handles a failed older or newer fetch changes neither
\* the list nor a cursor nor hasMore, and leaves the guard free.
C13_FailedFetchChangesNothing ==
  [][\A i \in 1..Len(inflight) :
       FailedPageSettles(i) =>
         /\ UNCHANGED <<messages, cursorVars, hasMore>>
         /\ ~busy']_vars

\* The one older fetch of the session failed (the initial load had succeeded:
\* a cursor exists and nothing was published) and loadOlder's guards let the
\* next trigger through.
C13_RetryAllowedAfterFailure ==
  /\ variant = "sentinel"
  /\ failures = 1 /\ posts = 0 /\ fetches = 1
  /\ inflight = <<>>
  /\ olderGuard

Malformed(rows) ==
  \E k \in 1..Len(rows) : rows[k].id = NULL \/ rows[k].created_at = InvalidDate

\* The handler of older page i, which holds a malformed item, runs in this step.
MalformedPageSettles(i) ==
  /\ inflight[i].phase = "served"
  /\ inflight[i].kind = "older"
  /\ inflight[i].ok
  /\ Malformed(inflight[i].rows)
  /\ inflight' = RemoveAt(inflight, i)

\* C14: an older page that holds a malformed item is dropped whole: the list,
\* both cursors, hasMore and renderCount stay as they were.
C14_MalformedPageNotMerged ==
  [][\A i \in 1..Len(inflight) :
       MalformedPageSettles(i) =>
         UNCHANGED <<messages, cursorVars, hasMore, renderCount>>]_vars

\* C15: no step removes a loaded id: the set of loaded ids only grows.
C15_LoadedIdsOnlyGrow == [][Ids(messages) \subseteq Ids(messages')]_vars

\* C16: with nothing in flight and both cursors set, oldest <= newest and
\* every loaded item was created within [oldest, newest].
C16_ItemsWithinCursors ==
  (inflight = <<>> /\ oldestCursor # NULL /\ newestCursor # NULL) =>
    /\ oldestCursor <= newestCursor
    /\ \A k \in 1..Len(messages) :
         /\ oldestCursor <= messages[k].timestamp
         /\ messages[k].timestamp <= newestCursor

\* The variants that keep a newestCursorRef.
KeepsNewestCursor == variant \in {"sentinel", "bidir"}

\* A page of PAGE_SIZE rows with timestamps T1 > T2 > ... > T10.
FullDescendingPage(rows) ==
  /\ Len(rows) = PAGE_SIZE
  /\ \A k \in 1..(PAGE_SIZE - 1) : rows[k].created_at > rows[k + 1].created_at

\* loadInitial handles the initial response i in this step.
InitialPageSettles(i) ==
  /\ Settled(i, "initial")
  /\ inflight[i].ok
  /\ inflight' = RemoveAt(inflight, i)

\* C17: from an empty list, an initial page of 10 items T1 > ... > T10 leaves
\* the list exactly [T1..T10], oldest = T10, hasMore true and, where a newest
\* cursor is kept, newest = T1.
C17_ScenarioInitialPage ==
  [][\A i \in 1..Len(inflight) :
       (InitialPageSettles(i) /\ messages = <<>>
          /\ FullDescendingPage(inflight[i].rows)) =>
         /\ messages' = mapDB(inflight[i].rows)
         /\ oldestCursor' = inflight[i].rows[PAGE_SIZE].created_at
         /\ KeepsNewestCursor => newestCursor' = inflight[i].rows[1].created_at
         /\ hasMore']_vars

\* The initial page of 10 has been loaded and nothing else has happened.
C17_InitialPageLoaded ==
  /\ KeepsNewestCursor
  /\ Len(messages) = PAGE_SIZE
  /\ fetches = 0 /\ posts = 0 /\ inflight = <<>>
  /\ newestCursor = messages[1].timestamp
  /\ oldestCursor = messages[PAGE_SIZE].timestamp
  /\ hasMore

\* The list is a full initial page [T1..T10] and oldest is its T10.
AfterFullInitialPage ==
  /\ Len(messages) = PAGE_SIZE
  /\ \A k \in 1..(PAGE_SIZE - 1) : messages[k].timestamp > messages[k + 1].timestamp
  /\ oldestCursor = messages[PAGE_SIZE].timestamp
  /\ hasMore

\* The smallest created_at of a non-empty page.
MinCreatedAt(rows) ==
  CHOOSE t \in {rows[k].created_at : k \in 1..Len(rows)} :
    \A k \in 1..Len(rows) : t <= rows[k].created_at

\* C18: after a full initial page, an older fetch with before = T10 that
\* returns 4 items leaves a list of 14 items, oldest at the smallest of the 4
\* new timestamps and hasMore false.
C18_ScenarioShortOlderPage ==
  [][\A i \in 1..Len(inflight) :
       (OlderPageMerged(i) /\ variant \in {"pullup", "sentinel"}
          /\ AfterFullInitialPage
          /\ inflight[i].before = oldestCursor
          /\ Len(inflight[i].rows) = 4) =>
         /\ Len(messages') = PAGE_SIZE + 4
         /\ oldestCursor' = MinCreatedAt(inflight[i].rows)
         /\ ~hasMore']_vars

\* The list of 14 that the short older page leaves behind.
C18_FourteenLoaded ==
  /\ variant \in {"pullup", "sentinel"}
  /\ backend = "paging"
  /\ Len(messages) = PAGE_SIZE + 4
  /\ fetches = 1 /\ posts = 0 /\ otherPosts = 0 /\ failures = 0
  /\ inflight = <<>>
  /\ oldestCursor = messages[PAGE_SIZE + 4].timestamp
  /\ ~hasMore

\* handleAddMessage handles the 2xx response i of its POST in this step.
PublishSettles(i) ==
  /\ Settled(i, "post")
  /\ inflight[i].ok
  /\ inflight' = RemoveAt(inflight, i)

\* The loaded list is a full page [T1..T10], T1 > ... > T10.
FullPageLoaded ==
  /\ Len(messages) = PAGE_SIZE
  /\ \A k \in 1..(PAGE_SIZE - 1) : messages[k].timestamp > messages[k + 1].timestamp

\* C19: with the full initial page [T1..T10] loaded, a successful publish
\* whose response has creation time T0 > T1 leaves the list [T0, T1, ..., T10]
\* and oldest unchanged, and sets newest = T0 where a newest cursor is kept.
C19_ScenarioPublish ==
  [][\A i \in 1..Len(inflight) :
       (PublishSettles(i) /\ FullPageLoaded
          /\ inflight[i].rows[1].created_at > messages[1].timestamp) =>
         /\ messages' = mapDB(inflight[i].rows) \o messages
         /\ KeepsNewestCursor => newestCursor' = inflight[i].rows[1].created_at
         /\ oldestCursor' = oldestCursor]_vars

\* The published item stands in front of the initial page.
C19_PublishedInFront ==
  /\ KeepsNewestCursor
  /\ Len(messages) = PAGE_SIZE + 1
  /\ posts = 1 /\ fetches = 0 /\ inflight = <<>>
  /\ messages[1].timestamp > messages[2].timestamp
  /\ newestCursor = messages[1].timestamp
  /\ oldestCursor = messages[PAGE_SIZE + 1].timestamp

\* The variants that keep an oldestCursorRef.
KeepsOldestCursor == variant \in {"pullup", "sentinel", "loadmore", "bidir"}

\* C20: a successful publish leaves the newest cursor at or after the
\* published item's creation time and, when there was no oldest cursor, sets
\* oldest to that creation time.
C20_PublishWidensCursors ==
  [][\A i \in 1..Len(inflight) :
       PublishSettles(i) =>
         LET t == inflight[i].rows[1].created_at
         IN /\ KeepsNewestCursor => newestCursor' >= t
            /\ (KeepsOldestCursor /\ oldestCursor = NULL) => oldestCursor' = t]_vars

C22_AutofillStopsAfterFive ==
  [][(variant \in {"sentinel", "loadmore"} /\ fetches >= 5) => ~OlderRequestIssued]_vars

\* The server answers the older-page request i (one sent with a cursor) in
\* this step.
OlderRequestServed(i) ==
  /\ inflight[i].phase = "sent"
  /\ inflight[i].kind = "older"
  /\ inflight[i].before # NULL
  /\ Len(inflight') = Len(inflight)
  /\ inflight'[i].phase = "served"
  /\ inflight'[i].ok

\* C23: the answer to an older-page request with limit L and cursor c holds
\* at most L rows, each created strictly before c, newest first.
C23_OlderPageContract ==
  [][\A i \in 1..Len(inflight) :
       OlderRequestServed(i) =>
         LET rows == inflight'[i].rows
         IN /\ Len(rows) <= inflight[i].limit
            /\ \A k \in 1..Len(rows) : rows[k].created_at < inflight[i].before
            /\ \A k \in 1..(Len(rows) - 1) :
                 rows[k].created_at >= rows[k + 1].created_at]_vars

\* How many times row stands in the sequence s.
Occurrences(s, row) == Cardinality({k \in 1..Len(s) : s[k] = row})

PostsInFlight == {i \in 1..Len(inflight) : inflight[i].kind = "post"}

\* The handler leaves the rejected insert of POST i behind in this step.
RejectedPostAnswered(i) ==
  /\ inflight[i].kind = "post"
  /\ inflight[i].phase = "rejected"
  /\ Len(inflight') = Len(inflight)
  /\ inflight'[i].phase # "rejected"

\* C24: a POST answered with 201 has stored its row once and broadcast it
\* once, the broadcast made after the insert and before the response; a POST
\* whose insert failed broadcasts nothing and is answered with 500.
C24_PostContract ==
  /\ [](\A i \in PostsInFlight :
          inflight[i].status = 201 =>
            /\ Occurrences(db, inflight[i].rows[1]) = 1
            /\ Occurrences(emitted, inflight[i].rows[1]) = 1)
  /\ [](\A k \in 1..Len(emitted) : Occurrences(db, emitted[k]) = 1)
  /\ [][\A i \in 1..Len(inflight) :
          RejectedPostAnswered(i) =>
            /\ inflight'[i].status = 500
            /\ UNCHANGED <<db, emitted>>]_vars

\* handleAddMessage handles the failure of its POST i in this step.
PublishFails(i) ==
  /\ Settled(i, "post")
  /\ ~inflight[i].ok
  /\ inflight' = RemoveAt(inflight, i)

\* C25: a failed publish leaves the list, both cursors, hasMore and
\* renderCount as they were and does not close the compose dialog.
C25_FailedPublishChangesNothing ==
  [][\A i \in 1..Len(inflight) :
       PublishFails(i) =>
         UNCHANGED <<messages, cursorVars, hasMore, renderCount, isPostDialogOpen>>]_vars

\* The publish has failed over a loaded page and the dialog is still open.
C25_DialogOpenAfterFailure ==
  /\ variant = "pullup"
  /\ posts = 1 /\ failures = 1 /\ fetches = 0
  /\ inflight = <<>>
  /\ messages # <<>>
  /\ isPostDialogOpen

\* onTouchMove(y) runs past its guards in a variant whose pull has a mode.
MoveHandled(y) ==
  /\ onTouchMove(y)
  /\ variant \in {"pullup", "bidir"}
  /\ pulling /\ ~busy

\* C26: a drag of raw distance d >= 0 in the pull direction shows a pull of
\* min(120, d / 2), never above 120, and is ready exactly when that pull is
\* at least 60.
C26_DampedPull ==
  [][\A y \in GestureYs :
       /\ (MoveHandled(y) /\ pullMode = "bottom" /\ startY - y >= 0) =>
            /\ 2 * bottomPull' = Min(2 * 120, startY - y)
            /\ bottomReady' = (bottomPull' >= 60)
       /\ (MoveHandled(y) /\ pullMode = "top" /\ y - startY >= 0) =>
            /\ 2 * topPull' = Min(2 * 120, y - startY)
            /\ topReady' = (topPull' >= 60)]_vars

\* A drag of raw distance 200 is shown as a pull of 100, ready.
C26_PullOfHundred ==
  /\ variant = "bidir"
  /\ pulling /\ pullMode = "bottom"
  /\ bottomPull = 100
  /\ bottomReady

\* What isAtTop() / isAtBottom() answered is the edge of the mode the gesture
\* is in ("refresh" has the top direction only).
ArmedAtItsEdge(atTop, atBottom) ==
  CASE variant = "refresh" -> atTop
    [] pullMode' = "top" -> atTop
    [] pullMode' = "bottom" -> atBottom
    [] OTHER -> FALSE

\* C27: a touchstart puts the gesture in pulling mode only if the scroll
\* position is at the edge of its direction; a gesture that began anywhere
\* else changes no pull distance and no ready flag with its touchmoves and
\* sends no request with its touchend.
C27_ArmedOnlyAtEdge ==
  [][/\ \A y \in TouchStartYs, atTop \in BOOLEAN, atBottom \in BOOLEAN :
          (onTouchStart(y, atTop, atBottom) /\ ~pulling /\ pulling') =>
            ArmedAtItsEdge(atTop, atBottom)
     /\ startedAway =>
          /\ \A y \in GestureYs :
               onTouchMove(y) => UNCHANGED <<topPull, topReady, bottomPull, bottomReady>>
          /\ onTouchEnd => inflight' = inflight]_vars

\* canRefreshRef / topReady / bottomReady of the direction the gesture in
\* progress pulls in.
ReadyOfGesture ==
  CASE variant = "refresh" -> topReady
    [] pullMode = "top" -> topReady
    [] pullMode = "bottom" -> bottomReady
    [] OTHER -> FALSE

\* The touch at y is on the far side of the starting point: above it for a
\* pull down from the top, below it for a pull up from the bottom.
MovedBackPastStart(y) ==
  CASE variant = "refresh" -> y < startY
    [] pullMode = "top" -> y < startY
    [] pullMode = "bottom" -> y > startY
    [] OTHER -> FALSE

\* C28: an armed gesture that is ready stops being ready with any touchmove
\* back past its starting point, and a touchend of a gesture that is not
\* ready sends no request.
C28_BackPastStartCancels ==
  /\ [](\A y \in GestureYs :
          (Listening /\ pulling /\ ~busy /\ ReadyOfGesture /\ MovedBackPastStart(y)) =>
            ~ENABLED (onTouchMove(y) /\ ReadyOfGesture'))
  /\ [][(onTouchEnd /\ ~ReadyOfGesture) => inflight' = inflight]_vars

\* The gesture state at rest: resetTopUI() and resetBottomUI() done, both
\* loading bars off, pullingRef false, pullModeRef null.
GestureIdle ==
  /\ topPull = 0 /\ bottomPull = 0
  /\ ~topReady /\ ~bottomReady
  /\ ~topLoading /\ ~bottomLoading
  /\ ~pulling /\ pullMode = "none"

\* The request that onTouchEnd awaited settles: inflight[i] leaves the queue.
GestureRequestSettles ==
  \E i \in 1..Len(inflight) :
    /\ inflight[i].gesture
    /\ inflight[i].phase = "served"
    /\ inflight' = RemoveAt(inflight, i)

\* C29: in "pullup" and "bidir" a touchend sends a request exactly when the
\* gesture is armed and ready and busyRef is free; a touchend that sends none
\* leaves the gesture state idle, and so does the settling of the request a
\* touchend sent.
C29_ReleaseFetchesThenIdle ==
  [][/\ (variant \in {"pullup", "bidir"} /\ onTouchEnd) =>
          /\ (inflight' # inflight) <=> (pulling /\ ReadyOfGesture /\ ~busy)
          /\ (inflight' = inflight /\ ~busy) => GestureIdle'
     /\ (variant \in {"pullup", "bidir"} /\ GestureRequestSettles) => GestureIdle']_vars

\* ------------------------------------------------------------ author labels
\* A string is the sequence of its characters.  NameChars is the alphabet of
\* what is typed or stored; names have at most MaxNameLen characters.
MaxNameLen == 2
NameChars == {" ", "a"}
Strings == UNION {[1..n -> NameChars] : n \in 0..MaxNameLen}

\* The two characters of the sentinel the sources write for "anonymous".
ANONYMOUS == <<"ni", "ming">>

\* A username that is SQL NULL, JSON null or missing from the body.
NoUsername == <<"null">>

\* x || d: null, undefined and the empty string are falsy.
OrElse(x, d) == IF x = NoUsername \/ x = <<>> THEN d ELSE x

\* x ?? d: only null and undefined give way.
Nullish(x, d) == IF x = NoUsername THEN d ELSE x

\* String.prototype.trim
trim(s) ==
  LET inked == {i \in 1..Len(s) : s[i] # " "} IN
  IF inked = {} THEN <<>>
  ELSE SubSeq(s, CHOOSE i \in inked : \A j \in inked : i <= j,
                 CHOOSE i \in inked : \A j \in inked : i >= j)

\* mapDB with its author field: author: msg.username ?? <sentinel>
mapDBAuthor(rows) ==
  [i \in 1..Len(rows) |-> [id |-> rows[i].id, timestamp |-> rows[i].created_at,
                           author |-> Nullish(rows[i].username, ANONYMOUS)]]

\* username TEXT: the column takes NULL, the empty string and any name.
StoredUsernames == {NoUsername, <<>>, <<"a">>}

\* Tables of up to two rows, as INSERT statements leave them.
AuthorTables ==
  UNION {{[i \in 1..n |-> [id |-> i, created_at |-> i, username |-> u[i]]] :
            u \in [1..n -> StoredUsernames]} : n \in 0..2}

\* PostMessageDialog.handleSubmit with `typed` in the nickname field,
\* onSubmit(content.trim(), author.trim() || <sentinel>), and handleAddMessage
\* up to its fetch: body {username: author || <sentinel>, content}.
submitAuthor ==
  /\ mounted
  /\ posts < MaxPosts
  /\ posts' = posts + 1
  /\ \E typed \in Strings :
       LET author == OrElse(trim(typed), ANONYMOUS) IN
       inflight' = Append(inflight,
         Request("post", NULL, NULL, 0, 1, {}, FALSE) @@
           [typed |-> typed, username |-> OrElse(author, ANONYMOUS)])
  /\ UNCHANGED <<envVars, content, latestRows, startedAway, db, emitted, messages, renderCount, hasMore, cursorVars, busy,
                 topLoading, bottomLoading, isInitialLoading, gestureVars,
                 isPostDialogOpen, mounted, observing, wasExhausted, otherPosts,
                 fetches, failures>>

\* app.post('/messages') for a body sent by any other client: the row is
\* stored with username || <sentinel>.
postFromElsewhere ==
  /\ otherPosts < MaxOtherPosts
  /\ otherPosts' = otherPosts + 1
  /\ \E username \in Strings \cup {NoUsername}, now \in Nows :
       LET row == [id |-> Len(db) + 1, created_at |-> now,
                   username |-> OrElse(username, ANONYMOUS)] IN
       /\ db' = Append(db, row)
       /\ emitted' = Append(emitted, row)
  /\ UNCHANGED <<envVars, content, latestRows, startedAway, messages, renderCount, hasMore, cursorVars, busy,
                 topLoading, bottomLoading, isInitialLoading, gestureVars,
                 isPostDialogOpen, inflight, mounted, observing, wasExhausted,
                 posts, fetches, failures>>

\* The server handles request i, rows carrying their username.
ServeAuthor(i) ==
  /\ inflight[i].phase = "sent"
  /\ IF inflight[i].kind = "post"
     THEN \E now \in Nows :
            LET row == [id |-> Len(db) + 1, created_at |-> now,
                        username |-> OrElse(inflight[i].username, ANONYMOUS)] IN
            /\ db' = Append(db, row)
            /\ emitted' = Append(emitted, row)
            /\ inflight' = [inflight EXCEPT ![i].phase = "served", ![i].rows = <<row>>,
                                            ![i].status = 201]
     ELSE /\ UNCHANGED <<db, emitted>>
          /\ inflight' = [inflight EXCEPT ![i].phase = "served", ![i].status = 200,
                                          ![i].rows = getMessages(db, FALSE)]
  /\ UNCHANGED <<envVars, content, latestRows, startedAway, messages, renderCount, hasMore, cursorVars, busy,
                 topLoading, bottomLoading, isInitialLoading, gestureVars,
                 isPostDialogOpen, mounted, observing, wasExhausted, boundVars>>

\* loadInitial of "pullup" after its awaits: setMessages(mapDB(data).sort(..)).
loadInitialAuthor(i) ==
  LET list == sortDesc(mapDBAuthor(inflight[i].rows)) IN
  /\ Settled(i, "initial")
  /\ inflight' = RemoveAt(inflight, i)
  /\ messages' = list
  /\ renderCount' = Min(PAGE_SIZE, Len(list))
  /\ oldestCursor' = IF Len(list) > 0 THEN list[Len(list)].timestamp ELSE oldestCursor
  /\ hasMore' = IF Len(list) < PAGE_SIZE THEN FALSE ELSE hasMore
  /\ UNCHANGED <<envVars, content, latestRows, startedAway, db, emitted, newestCursor, busy, topLoading, bottomLoading,
                 isInitialLoading, gestureVars, isPostDialogOpen, mounted,
                 observing, wasExhausted, boundVars>>

\* handleAddMessage of "pullup" after its awaits: newMessage with
\* author: msg.username ?? <sentinel>, put in front and sorted.
addMessageAuthor(i) ==
  LET newMessage == mapDBAuthor(inflight[i].rows)[1] IN
  /\ Settled(i, "post")
  /\ inflight' = RemoveAt(inflight, i)
  /\ messages' = addMessage(variant, messages, newMessage)
  /\ renderCount' = renderCount + 1
  /\ oldestCursor' = seedOldest(variant, oldestCursor, newMessage.timestamp)
  /\ UNCHANGED <<envVars, content, latestRows, startedAway, db, emitted, hasMore, newestCursor, busy, topLoading,
                 bottomLoading, isInitialLoading, gestureVars, isPostDialogOpen,
                 mounted, observing, wasExhausted, boundVars>>

InitAuthor ==
  /\ variant = "pullup"
  /\ backend = "repo"
  /\ db \in AuthorTables
  /\ InitClient

NextAuthor ==
  \/ Mount
  \/ submitAuthor
  \/ postFromElsewhere
  \/ \E i \in 1..Len(inflight) : ServeAuthor(i)
  \/ \E i \in 1..Len(inflight) : loadInitialAuthor(i)
  \/ \E i \in 1..Len(inflight) : addMessageAuthor(i)

SpecAuthor == InitAuthor /\ [][NextAuthor]_vars

\* The stored row an item of the list was made from.
RowOf(m) == CHOOSE r \in {db[k] : k \in 1..Len(db)} : r.id = m.id

\* C30: every item of the list has a non-empty author, an item made from a
\* row without username has the sentinel, and a publish whose nickname field
\* is empty or blank is sent, and stored, with the sentinel.
C30_AuthorLabelNeverEmpty ==
  /\ \A k \in 1..Len(messages) :
       /\ messages[k].author # <<>>
       /\ RowOf(messages[k]).username = NoUsername => messages[k].author = ANONYMOUS
  /\ \A i \in 1..Len(inflight) :
       (inflight[i].kind = "post" /\ trim(inflight[i].typed) = <<>>) =>
         /\ inflight[i].username = ANONYMOUS
         /\ inflight[i].phase = "served" => inflight[i].rows[1].username = ANONYMOUS

\* ----------------------------------------------------------- compose dialog
\* content.length > 500
MAX_CONTENT == 500

\* Lengths of the visible part of a draft, around the limit.
InkLengths == {1, 499, 500, 501}

\* Drafts: a visible part with up to one whitespace character on each side,
\* or up to two whitespace characters alone.
Contents ==
  {<<lead, ink, trail>> : lead \in 0..1, ink \in InkLengths, trail \in 0..1}
    \cup {<<n, 0, 0>> : n \in 0..2}

\* !content.trim()
isBlank(c) == trimContent(c) = EmptyContent

\* The length test switched off
neverTooLong(c) == FALSE

\* content.length > 500
tooLong(c) == Length(c) > MAX_CONTENT

\* onChange={(e) => setContent(e.target.value)} of the text field.
onChange(c) ==
  /\ isPostDialogOpen
  /\ content' = c
  /\ UNCHANGED <<envVars, latestRows, startedAway, db, emitted, messages, renderCount, hasMore,
                 cursorVars, busy, topLoading, bottomLoading, isInitialLoading,
                 gestureVars, isPostDialogOpen, inflight, mounted, observing,
                 wasExhausted, boundVars>>

\* PostMessageDialog.handleSubmit on the draft as it stands: the two tests
\* that return after a toast, else onSubmit(content.trim(), ..), which is
\* handleAddMessage up to its fetch, and setContent("").
handleSubmitDraft ==
  /\ isPostDialogOpen
  /\ posts < MaxPosts
  /\ IF isBlank(content) \/ tooLong(content)
     THEN UNCHANGED <<content, inflight, posts>>
     ELSE /\ inflight' = Append(inflight,
                Request("post", NULL, NULL, 0, 1, {}, FALSE) @@
                  [body |-> trimContent(content)])
          /\ posts' = posts + 1
          /\ content' = EmptyContent
  /\ UNCHANGED <<envVars, latestRows, startedAway, db, emitted, messages, renderCount, hasMore,
                 cursorVars, busy, topLoading, bottomLoading, isInitialLoading,
                 gestureVars, isPostDialogOpen, mounted, observing, wasExhausted,
                 otherPosts, fetches, failures>>

InitDialog ==
  /\ variant = "pullup"
  /\ backend = "repo"
  /\ db \in {MkRows(0, 0), MkRows(3, 2)}
  /\ InitClient

NextDialog ==
  \/ Mount
  \/ openPostDialog
  \/ \E c \in Contents : onChange(c)
  \/ handleSubmitDraft
  \/ \E i \in 1..Len(inflight) : Serve(i)
  \/ \E i \in 1..Len(inflight) : Fail(i)
  \/ \E i \in 1..Len(inflight) : loadInitial_pullup(i)
  \/ \E i \in 1..Len(inflight) : handleAddMessage(i)

SpecDialog == InitDialog /\ [][NextDialog]_vars

\* The publish requests in flight.
PublishRequests == {inflight[i] : i \in {j \in 1..Len(inflight) : inflight[j].kind = "post"}}

\* C31: every publish request carries a text that is trimmed, not empty and
\* at most 500 characters long; on a draft that is blank or longer than 500
\* characters a submit sends nothing and leaves the draft as it is.
C31_OnlyValidContentPublished ==
  /\ \A r \in PublishRequests :
       /\ r.body = trimContent(r.body)
       /\ r.body # EmptyContent
       /\ Length(r.body) <= MAX_CONTENT
  /\ (isBlank(content) \/ tooLong(content)) =>
       ~ENABLED (handleSubmitDraft /\ (inflight' # inflight \/ content' # content))

\* A draft of exactly 500 characters has been submitted and the field cleared.
C31_LongestDraftSent ==
  /\ content = EmptyContent
  /\ \E r \in PublishRequests : r.phase = "sent" /\ Length(r.body) = MAX_CONTENT

\* A page request (initial, older or newer) that succeeded settles in this step.
PageSettles(i) ==
  /\ i \in 1..Len(inflight)
  /\ inflight[i].kind \in {"initial", "older", "newer"}
  /\ inflight[i].phase = "served"
  /\ inflight[i].ok
  /\ inflight' = RemoveAt(inflight, i)

\* C32: in the variants with an initial load, a page that settles leaves in
\* the list every item that was there (a published one among them) and every
\* item of the page, and a publish that settles leaves every item that was
\* there and the published one.
C32_PublishAndPageBothKept ==
  [][variant # "refresh" =>
       \A i \in 1..Len(inflight) :
         /\ PageSettles(i) =>
              Ids(messages) \cup Ids(inflight[i].rows) \subseteq Ids(messages')
         /\ (PublishSettles(i) /\ inflight[i].ok) =>
              Ids(messages) \cup Ids(inflight[i].rows) \subseteq Ids(messages')]_vars

\* No row has been inserted since the session began.
LogUnchanged == posts = 0 /\ otherPosts = 0 /\ emitted = <<>>

\* C33: in "pullup" and "sentinel", over a table that does not change, once
\* hasMore is false and nothing is in flight the list holds every row of the
\* table, rows that share their creation time with another row included.
C33_ExhaustedMeansComplete ==
  (/\ variant \in {"pullup", "sentinel"}
   /\ LogUnchanged
   /\ inflight = <<>>
   /\ ~hasMore) => Ids(db) \subseteq Ids(messages)

\* An older-page request of the offset form, /messages?limit=..&offset=..
OffsetFallbackInFlight ==
  \E i \in 1..Len(inflight) : inflight[i].kind = "older" /\ inflight[i].before = NULL

\* C34: in "pullup" and "sentinel" the oldest cursor is null exactly when
\* the list is empty, and no older-page request is of the offset form.
C34_OldestCursorNullIffEmpty ==
  variant \in {"pullup", "sentinel"} =>
    /\ (oldestCursor = NULL) <=> (messages = <<>>)
    /\ ~OffsetFallbackInFlight

\* C35: in "pullup" and "sentinel", the variants that render
\* messages.slice(0, renderCount), renderCount is never below the number of
\* loaded items.
C35_RenderCountCoversList ==
  variant \in {"pullup", "sentinel"} => renderCount >= Len(messages)

\* ------------------------------------------------- sentinel-driven loading
\* "sentinel" and "loadmore" over a table nobody writes to, no request
\* failing.  The server answers every request, every response is handled, and
\* the sentinel stays in the trigger zone: the observer's callback runs
\* whenever an observer is attached.
AutofillDBs == InitDBs \cup {MkRows(25, 0)}

InitAutofill ==
  /\ variant \in {"sentinel", "loadmore"}
  /\ backend \in Backends
  /\ db \in AutofillDBs
  /\ InitClient

NextAutofill ==
  \/ Mount
  \/ \E i \in 1..Len(inflight) : Serve(i)
  \/ \E i \in 1..Len(inflight) : loadInitial_sentinel(i)
  \/ \E i \in 1..Len(inflight) : loadInitial_loadmore(i)
  \/ \E i \in 1..Len(inflight) : olderPageSettles(i)
  \/ onIntersect

FairAutofill ==
  /\ WF_vars(Mount)
  /\ WF_vars(\E i \in 1..Len(inflight) : Serve(i))
  /\ WF_vars(\E i \in 1..Len(inflight) : loadInitial_sentinel(i))
  /\ WF_vars(\E i \in 1..Len(inflight) : loadInitial_loadmore(i))
  /\ WF_vars(\E i \in 1..Len(inflight) : olderPageSettles(i))
  /\ WF_vars(onIntersect)

SpecAutofill == InitAutofill /\ [][NextAutofill]_vars /\ FairAutofill

\* C36: sentinel-driven loading comes to rest with hasMore false and nothing
\* in flight, and stays there.
C36_SentinelLoadingStops ==
  <>[](~hasMore /\ inflight = <<>>)

\* ------------------------------------------------------- the two spinners
\* C37: in the two-way variant the top and the bottom loading flag are never
\* both set.
C37_NeverBothLoading ==
  variant = "bidir" => ~(topLoading /\ bottomLoading)

\* A gesture request of the two-way variant in flight with one flag set.
C37_OneEdgeLoading ==
  /\ variant = "bidir"
  /\ busy
  /\ topLoading # bottomLoading
  /\ \E i \in 1..Len(inflight) : inflight[i].gesture /\ inflight[i].phase = "served"

\* ------------------------------------------------------ overlapping refreshes
\* C38: in "refresh", once every request has settled (none failed, nothing
\* published from this page) the list holds the items of the response to the
\* request issued last.
C38_LatestRefreshWins ==
  (variant = "refresh" /\ mounted /\ inflight = <<>> /\ failures = 0 /\ posts = 0)
    => Ids(messages) = Ids(latestRows)

====
